---- MODULE Spec2Model ----
(***************************************************************************)
(* simple-session: the Session entity and the SessionManager store with    *)
(* its garbage collector and its RPC methods (src/unnamed/part_000).       *)
(*                                                                         *)
(* Session objects live in `heap` (a reference is an index into it); the   *)
(* manager's array `this.sessions` is the sequence `sessions` of           *)
(* references, and the arrays a session's `_subscriptions` may point to    *)
(* live in `arrays`.  JavaScript runs every method body below to completion*)
(* before any other callback runs (none of them awaits before its last     *)
(* state change), so one call is one action.                               *)
(***************************************************************************)
EXTENDS Integers, Sequences, FiniteSets

VARIABLES
    clock,      \* Math.floor(Date.now() / 1000): the unix time in seconds
    timeout,    \* this._opts.timeout
    timer,      \* TRUE while a setTimeout(this._gc) is pending
    heap,       \* every Session object constructed so far
    arrays,     \* every array object allocated for a session's subscriptions
    sessions,   \* this.sessions: references to the live sessions, in order
    issued,     \* identifiers uuidv4() has returned so far
    swept,      \* history: references the garbage collector removed
    awaiting,   \* the calls suspended at an `await`, to be resumed
    last,       \* history: the last call, its arguments, outcome and sends
    listed      \* history: a list a client got from listSessions and kept

vars == <<clock, timeout, timer, heap, arrays, sessions, issued, swept, awaiting, last,
          listed>>

----------------------------------------------------------------------------
(* Bounds *)

MaxSessions == 2      \* Session objects constructed in one behaviour
MaxTime     == 3      \* the clock stops at MaxTime seconds
MaxTimeout  == 2      \* the timeout, when one is configured
MaxAwaiting == 2      \* calls suspended at an `await` at one time

UUIDS       == 1..MaxSessions   \* the identifiers uuidv4() draws from
Users       == {"alice"}
Connections == {"conn1"}
Topics      == {"a", "b"}
Batches     == {<<>>, <<"a">>, <<"a", "a">>, <<"b", "a">>, <<"a", "b", "a">>}

----------------------------------------------------------------------------
(* JavaScript values *)

Null      == "null"                       \* null in a string-valued slot
NoSession == 0                            \* null in a session-reference slot
IsNull(v) == v.tag = "null"
NullArray == [tag |-> "null"]             \* null in an array-valued slot
ArrayRef(at) == [tag |-> "array", at |-> at]   \* a reference to arrays[at]
NoTimeout == [tag |-> "null"]             \* null in the timeout option
Seconds(n) == [tag |-> "number", n |-> n]

Undefined == <<"undefined", "undefined">>
Str(s)    == <<"string", s>>
True      == <<"boolean", "true">>
Messages  == {Str("hello"), Undefined}

Return(v) == [type |-> "return", value |-> v]
Throw(e)  == [type |-> "throw", value |-> e]
Pending   == [type |-> "pending", value |-> Undefined]   \* a promise not yet settled

\* The record of one call: the method, the session and parameters it was given,
\* its outcome and the texts it handed to connection.send
Call(op, session, params, ret, sent) ==
    [op |-> op, session |-> session, params |-> params, ret |-> ret, sent |-> sent]

TypeError      == Throw("TypeError")
ReferenceError == Throw("ReferenceError")

Refs == 1..Len(heap)

\* Array.prototype.includes
Includes(arr, x) == \E i \in DOMAIN arr : arr[i] = x

\* Array.prototype.splice(i, 1)
Splice(arr, i) == [j \in 1..(Len(arr) - 1) |-> IF j < i THEN arr[j] ELSE arr[j + 1]]

----------------------------------------------------------------------------
(* JSON.stringify of an object given as a sequence of <<key, value>>       *)
(* properties: a property whose value is undefined is left out.            *)

Tok(kind, text) == <<kind, text>>

JSONvalue(v) == IF v[1] = "string" THEN Tok("string", v[2]) ELSE Tok("literal", v[2])

RECURSIVE JSONmembers(_, _)
JSONmembers(props, first) ==
    IF props = <<>> THEN <<>>
    ELSE IF Head(props)[2] = Undefined THEN JSONmembers(Tail(props), first)
    ELSE (IF first THEN <<>> ELSE <<Tok("punct", ",")>>)
         \o <<Tok("string", Head(props)[1]), Tok("punct", ":"), JSONvalue(Head(props)[2])>>
         \o JSONmembers(Tail(props), FALSE)

JSONstringify(props) ==
    <<Tok("punct", "{")>> \o JSONmembers(props, TRUE) \o <<Tok("punct", "}")>>

----------------------------------------------------------------------------
(* class Session.  A method is an operator from the object (and its        *)
(* arguments) to [obj, ret, sent]: the object afterwards, the outcome and  *)
(* the texts handed to connection.send.  The subscription methods also     *)
(* take the array objects `arrs` and give them back as they leave them.    *)

\* (variant of Session: the constructor allocates an empty subscription array)
Session_emptyArray(id, now, arrs) ==
    [ obj  |-> [ _id            |-> id,
                 _dateCreated   |-> now,
                 _dateLastUsed  |-> now,
                 _user          |-> Null,
                 _connection    |-> Null,
                 _subscriptions |-> ArrayRef(Len(arrs) + 1) ],
      arrs |-> Append(arrs, <<>>) ]

\* new Session(): the object, and the array objects after the constructor
Session(id, now, arrs) ==
    [ obj  |-> [ _id            |-> id,
                 _dateCreated   |-> now,
                 _dateLastUsed  |-> now,
                 _user          |-> Null,
                 _connection    |-> Null,
                 _subscriptions |-> NullArray ],
      arrs |-> arrs ]

getIdentifier(s) == s._id

getUsedAt(s) == s._dateLastUsed

\* (variant of use: the timestamp is reset instead of set to the current time)
use_reset(s, now) == [s EXCEPT !._dateLastUsed = 0]

use(s, now) == [s EXCEPT !._dateLastUsed = now]

\* (variant of setConnection: attaching a connection counts as a use)
setConnection_touching(s, connection) ==
    [s EXCEPT !._connection = connection, !._dateLastUsed = s._dateLastUsed + 1]

setConnection(s, connection) == [s EXCEPT !._connection = connection]

setUser(s, user) == [s EXCEPT !._user = user]

serialize(s) ==
    [ id            |-> s._id,
      user          |-> s._user,
      dateCreated   |-> s._dateCreated,
      dateLastUsed  |-> s._dateLastUsed,
      subscriptions |-> s._subscriptions ]

\* (variant of Session_push: the subject is left out of the envelope)
Session_push_noSubject(s, subject, message) ==
    IF s._connection # Null
    THEN [ obj  |-> s,
           ret  |-> Return(TRUE),
           sent |-> << [ to   |-> s._connection,
                         text |-> JSONstringify(<< <<"pushMessage", True>>,
                                                   <<"message", message>> >>) ] >> ]
    ELSE [obj |-> s, ret |-> Return(FALSE), sent |-> <<>>]

Session_push(s, subject, message) ==
    IF s._connection # Null
    THEN [ obj  |-> s,
           ret  |-> Return(TRUE),
           sent |-> << [ to   |-> s._connection,
                         text |-> JSONstringify(<< <<"pushMessage", True>>,
                                                   <<"subject", Str(subject)>>,
                                                   <<"message", message>> >>) ] >> ]
    ELSE [obj |-> s, ret |-> Return(FALSE), sent |-> <<>>]

Session_pushIfSubscribed(s, arrs, subject, message) ==
    IF IsNull(s._subscriptions)
    THEN [obj |-> s, ret |-> TypeError, sent |-> <<>>]
    ELSE IF Includes(arrs[s._subscriptions.at], subject)
         THEN Session_push(s, subject, message)
         ELSE [obj |-> s, ret |-> Return(FALSE), sent |-> <<>>]

\* push(subject) appends to the array the field points to, in place
Session_subscribe(s, arrs, subject) ==
    IF IsNull(s._subscriptions)
    THEN [obj |-> s, arrs |-> arrs, ret |-> TypeError, sent |-> <<>>]
    ELSE IF ~Includes(arrs[s._subscriptions.at], subject)
         THEN [ obj  |-> s,
                arrs |-> [arrs EXCEPT ![s._subscriptions.at] = Append(@, subject)],
                ret  |-> Return(TRUE),
                sent |-> <<>> ]
         ELSE [obj |-> s, arrs |-> arrs, ret |-> Return(FALSE), sent |-> <<>>]

\* filter(...) makes a new array, which the field is then pointed to
Session_unsubscribe(s, arrs, subject) ==
    IF IsNull(s._subscriptions)
    THEN [obj |-> s, arrs |-> arrs, ret |-> TypeError, sent |-> <<>>]
    ELSE [ obj  |-> [s EXCEPT !._subscriptions = ArrayRef(Len(arrs) + 1)],
           arrs |-> Append(arrs, SelectSeq(arrs[s._subscriptions.at],
                                           LAMBDA item : item # subject)),
           ret  |-> Return(TRUE),
           sent |-> <<>> ]

----------------------------------------------------------------------------
(* The user collaborator: serialize() and getPermissions()                 *)

User_serialize(user) == [name |-> user]

User_getPermissions(user) == IF user = "alice" THEN <<"read", "write">> ELSE <<>>

----------------------------------------------------------------------------
(* class SessionManager: internal and system functions, as operators over  *)
(* the array `arr` of references and the objects `objs` they point to.     *)

\* (variant of constructor_setTimeout: _gc is scheduled whatever the timeout)
constructor_setTimeout_always(tmo) == TRUE

\* The constructor schedules _gc exactly when a timeout is configured
constructor_setTimeout(tmo) == ~IsNull(tmo)

\* The index at which the loop `for (var i in arr)` finds identifier `id`,
\* 0 when it runs to the end
indexOfIdentifier(arr, objs, id) ==
    IF \E i \in DOMAIN arr : getIdentifier(objs[arr[i]]) = id
    THEN CHOOSE i \in DOMAIN arr :
            /\ getIdentifier(objs[arr[i]]) = id
            /\ \A j \in 1..(i - 1) : getIdentifier(objs[arr[j]]) # id
    ELSE 0

\* The index at which the loop finds the object `ref` itself (===), or 0
indexOfObject(arr, ref) ==
    IF \E i \in DOMAIN arr : arr[i] = ref
    THEN CHOOSE i \in DOMAIN arr : arr[i] = ref /\ \A j \in 1..(i - 1) : arr[j] # ref
    ELSE 0

\* (variant of _destroySession: the splice takes the first entry)
_destroySession_first(arr, objs, id) ==
    LET i == indexOfIdentifier(arr, objs, id)
    IN  IF i # 0 THEN [sessions |-> Splice(arr, 1), ret |-> TRUE]
        ELSE [sessions |-> arr, ret |-> FALSE]

_destroySession(arr, objs, id) ==
    LET i == indexOfIdentifier(arr, objs, id)
    IN  IF i # 0 THEN [sessions |-> Splice(arr, i), ret |-> TRUE]
        ELSE [sessions |-> arr, ret |-> FALSE]

\* (variant of gcKeeps: the comparison made inclusive)
gcKeeps_inclusive(s, now, tmo) == now - getUsedAt(s) <= tmo

\* the test of _gc's loop: the session is kept
gcKeeps(s, now, tmo) == now - getUsedAt(s) < tmo

\* sessionsToKeep, as _gc's loop builds it
sessionsToKeep(arr, objs, now, tmo) ==
    SelectSeq(arr, LAMBDA r : gcKeeps(objs[r], now, tmo))

getSession(arr, objs, token) ==
    LET i == indexOfIdentifier(arr, objs, token)
    IN  IF i # 0 THEN arr[i] ELSE NoSession

RECURSIVE serializeAll(_, _)
serializeAll(arr, objs) ==
    IF arr = <<>> THEN <<>>
    ELSE <<serialize(objs[Head(arr)])>> \o serializeAll(Tail(arr), objs)

\* Promise.all over promises that are all settled already
PromiseAll(rets) ==
    IF \E i \in DOMAIN rets : rets[i].type = "throw"
    THEN rets[CHOOSE i \in DOMAIN rets :
                 /\ rets[i].type = "throw"
                 /\ \A j \in 1..(i - 1) : rets[j].type # "throw"]
    ELSE Return([j \in DOMAIN rets |-> rets[j].value])

\* (variant of subscribeEach: the loop stops after its first sub-call)
subscribeEach_first(s, arrs, topics) ==
    IF topics = <<>> THEN [obj |-> s, arrs |-> arrs, rets |-> <<>>]
    ELSE LET one == Session_subscribe(s, arrs, Head(topics))
         IN  [obj |-> one.obj, arrs |-> one.arrs, rets |-> <<one.ret>>]

\* the loops of subscribe/unsubscribe: session.subscribe(params[i]) for each i
RECURSIVE subscribeEach(_, _, _)
subscribeEach(s, arrs, topics) ==
    IF topics = <<>> THEN [obj |-> s, arrs |-> arrs, rets |-> <<>>]
    ELSE LET one  == Session_subscribe(s, arrs, Head(topics))
             rest == subscribeEach(one.obj, one.arrs, Tail(topics))
         IN  [obj |-> rest.obj, arrs |-> rest.arrs, rets |-> <<one.ret>> \o rest.rets]

RECURSIVE unsubscribeEach(_, _, _)
unsubscribeEach(s, arrs, topics) ==
    IF topics = <<>> THEN [obj |-> s, arrs |-> arrs, rets |-> <<>>]
    ELSE LET one  == Session_unsubscribe(s, arrs, Head(topics))
             rest == unsubscribeEach(one.obj, one.arrs, Tail(topics))
         IN  [obj |-> rest.obj, arrs |-> rest.arrs, rets |-> <<one.ret>> \o rest.rets]

----------------------------------------------------------------------------
(* The RPC methods and the calls the collaborators make, as operators      *)
(* giving the outcome; the actions below apply them to the state.          *)

\* uuidv4(): an identifier it has not returned before.  Identifiers are only
\* ever compared for equality, so which fresh one is drawn is immaterial: the
\* greatest is taken.
uuidv4 == {id \in UUIDS \ issued : \A other \in UUIDS \ issued : other <= id}

\* (variant of sessionsPush: the new session is put in front)
sessionsPush_front(arr, ref) == <<ref>> \o arr

\* (variant of sessionsPush: the new session is pushed twice)
sessionsPush_twice(arr, ref) == Append(Append(arr, ref), ref)

\* this.sessions.push(newSession)
sessionsPush(arr, ref) == Append(arr, ref)

\* (variant of destroyCurrent: a missing session is reported as destroyed)
destroyCurrent_lenient(arr, session) ==
    LET i == indexOfObject(arr, session)
    IN  [sessions |-> IF i # 0 THEN Splice(arr, i) ELSE arr, ret |-> Return(TRUE)]

\* (variant of destroyCurrent: the splice takes the first entry)
destroyCurrent_first(arr, session) ==
    LET i == indexOfObject(arr, session)
    IN  IF i # 0 THEN [sessions |-> Splice(arr, 1), ret |-> Return(TRUE)]
        ELSE [sessions |-> arr, ret |-> Throw("Session not found.")]

destroyCurrent(arr, session) ==
    LET i == indexOfObject(arr, session)
    IN  IF i # 0 THEN [sessions |-> Splice(arr, i), ret |-> Return(TRUE)]
        ELSE [sessions |-> arr, ret |-> Throw("Session not found.")]

destroyById(arr, objs, params) ==
    LET r == _destroySession(arr, objs, params)
    IN  [ sessions |-> r.sessions,
          ret      |-> IF ~r.ret THEN Throw("Session not found") ELSE Return(TRUE) ]

\* (variant of stateOf: without a session it fails as a destroy does)
stateOf_notFound(objs, session) ==
    IF session = NoSession THEN Throw("Session not found.")
    ELSE LET user == objs[session]._user
         IN  Return([ user        |-> IF user # Null THEN User_serialize(user) ELSE Null,
                      permissions |-> IF user # Null THEN User_getPermissions(user)
                                      ELSE <<>> ])

stateOf(objs, session) ==
    IF session = NoSession THEN Throw("no active session")
    ELSE LET user == objs[session]._user
         IN  Return([ user        |-> IF user # Null THEN User_serialize(user) ELSE Null,
                      permissions |-> IF user # Null THEN User_getPermissions(user)
                                      ELSE <<>> ])

\* `user` is not declared in this method: reading it throws
permissionsOf(objs, session) ==
    IF session = NoSession THEN Throw("no active session")
    ELSE ReferenceError

\* subscribe/unsubscribe up to their `await`: the sub-calls made, each run to
\* its end (their bodies await nothing), and the outcomes their promises hold
subscribeIssued(s, arrs, params) ==
    IF params.type = "string"
    THEN LET r == Session_subscribe(s, arrs, params.value)
         IN  [obj |-> r.obj, arrs |-> r.arrs, rets |-> <<r.ret>>]
    ELSE subscribeEach(s, arrs, params.value)

unsubscribeIssued(s, arrs, params) ==
    IF params.type = "string"
    THEN LET r == Session_unsubscribe(s, arrs, params.value)
         IN  [obj |-> r.obj, arrs |-> r.arrs, rets |-> <<r.ret>>]
    ELSE unsubscribeEach(s, arrs, params.value)

\* what the `await` gives when the call resumes
awaited(params, rets) == IF params.type = "string" THEN rets[1] ELSE PromiseAll(rets)

subscribeCall(s, arrs, params) ==
    IF params.type = "string"
    THEN LET r == Session_subscribe(s, arrs, params.value)
         IN  [obj |-> r.obj, arrs |-> r.arrs, ret |-> r.ret]
    ELSE LET r == subscribeEach(s, arrs, params.value)
         IN  [obj |-> r.obj, arrs |-> r.arrs, ret |-> PromiseAll(r.rets)]

unsubscribeCall(s, arrs, params) ==
    IF params.type = "string"
    THEN LET r == Session_unsubscribe(s, arrs, params.value)
         IN  [obj |-> r.obj, arrs |-> r.arrs, ret |-> r.ret]
    ELSE LET r == unsubscribeEach(s, arrs, params.value)
         IN  [obj |-> r.obj, arrs |-> r.arrs, ret |-> PromiseAll(r.rets)]

----------------------------------------------------------------------------
(* State machine *)

None == <<"none", "none">>

\* What a reader of a list of summaries finds in it: each summary with its
\* `subscriptions` property followed to the array object it points to
Observe(list, arrs) ==
    [i \in DOMAIN list |->
        [list[i] EXCEPT !.subscriptions =
            IF IsNull(@) THEN [tag |-> "null"] ELSE [tag |-> "array", items |-> arrs[@.at]]]]

\* No list kept; the list kept, and what was read in it when it was returned
NoList == [kept |-> FALSE, list |-> <<>>, seen |-> <<>>]
Kept(list, arrs) == [kept |-> TRUE, list |-> list, seen |-> Observe(list, arrs)]

\* The two shapes of parameter push/subscribe and push/unsubscribe accept
StringParam(topic) == [type |-> "string", value |-> topic]
ArrayParam(topics) == [type |-> "array", value |-> topics]

Init ==
    /\ clock = 0
    /\ timeout = NoTimeout \/ timeout = Seconds(MaxTimeout)
    /\ timer = constructor_setTimeout(timeout)
    /\ heap = <<>>
    /\ arrays = <<>>
    /\ sessions = <<>>
    /\ issued = {}
    /\ swept = {}
    /\ last = Call("constructor", NoSession, None, Return(Undefined), <<>>)
    /\ listed = NoList
    /\ awaiting = <<>>

\* Time passes
Tick ==
    /\ clock < MaxTime
    /\ clock' = clock + 1
    /\ last' = Call("tick", NoSession, None, Return(Undefined), <<>>)
    /\ UNCHANGED <<timeout, timer, heap, sessions, issued, swept, arrays, listed, awaiting>>

\* (variant of _gc: the pass does not schedule the next one)
_gc_once ==
    /\ timer
    /\ IF IsNull(timeout)
       THEN UNCHANGED <<sessions, swept>>
       ELSE /\ sessions' = sessionsToKeep(sessions, heap, clock, timeout.n)
            /\ swept' = swept \cup ({sessions[i] : i \in DOMAIN sessions}
                                 \ {sessions'[i] : i \in DOMAIN sessions'})
    /\ timer' = FALSE
    /\ last' = Call("_gc", NoSession, None, Return(Undefined), <<>>)
    /\ UNCHANGED <<clock, timeout, heap, issued, arrays, listed, awaiting>>

\* The timer fires: one pass of the garbage collector
_gc ==
    /\ timer
    /\ IF IsNull(timeout)
       THEN /\ timer' = FALSE
            /\ UNCHANGED <<sessions, swept>>
       ELSE /\ sessions' = sessionsToKeep(sessions, heap, clock, timeout.n)
            /\ swept' = swept \cup ({sessions[i] : i \in DOMAIN sessions}
                                 \ {sessions'[i] : i \in DOMAIN sessions'})
            /\ timer' = TRUE
    /\ last' = Call("_gc", NoSession, None, Return(Undefined), <<>>)
    /\ UNCHANGED <<clock, timeout, heap, issued, arrays, listed, awaiting>>

createSession ==
    /\ Len(heap) < MaxSessions
    /\ \E id \in uuidv4 :
          LET newSession == Session(id, clock, arrays)
          IN  /\ heap' = Append(heap, newSession.obj)
              /\ arrays' = newSession.arrs
              /\ issued' = issued \cup {id}
              /\ last' = Call("createSession", NoSession, None, Return(id), <<>>)
    /\ sessions' = sessionsPush(sessions, Len(heap) + 1)
    /\ UNCHANGED <<clock, timeout, timer, swept, listed, awaiting>>

destroyCurrentSession(session) ==
    LET r == destroyCurrent(sessions, session)
    IN  /\ sessions' = r.sessions
        /\ last' = Call("destroyCurrentSession", session, None, r.ret, <<>>)
        /\ UNCHANGED <<clock, timeout, timer, heap, issued, swept, arrays, listed, awaiting>>

state(session) ==
    /\ last' = Call("state", session, None, stateOf(heap, session), <<>>)
    /\ UNCHANGED <<clock, timeout, timer, heap, sessions, issued, swept, arrays, listed, awaiting>>

listPermissionsForCurrentSession(session) ==
    /\ last' = Call("listPermissionsForCurrentSession", session, None,
                    permissionsOf(heap, session), <<>>)
    /\ UNCHANGED <<clock, timeout, timer, heap, sessions, issued, swept, arrays, listed, awaiting>>

subscribe(session, params) ==
    /\ IF session = NoSession
       THEN /\ last' = Call("subscribe", session, params, Throw("no active session"), <<>>)
            /\ UNCHANGED <<heap, arrays>>
       ELSE LET r == subscribeCall(heap[session], arrays, params)
            IN  /\ heap' = [heap EXCEPT ![session] = r.obj]
                /\ arrays' = r.arrs
                /\ last' = Call("subscribe", session, params, r.ret, <<>>)
    /\ UNCHANGED <<clock, timeout, timer, sessions, issued, swept, listed, awaiting>>

unsubscribe(session, params) ==
    /\ IF session = NoSession
       THEN /\ last' = Call("unsubscribe", session, params, Throw("no active session"), <<>>)
            /\ UNCHANGED <<heap, arrays>>
       ELSE LET r == unsubscribeCall(heap[session], arrays, params)
            IN  /\ heap' = [heap EXCEPT ![session] = r.obj]
                /\ arrays' = r.arrs
                /\ last' = Call("unsubscribe", session, params, r.ret, <<>>)
    /\ UNCHANGED <<clock, timeout, timer, sessions, issued, swept, listed, awaiting>>

\* subscribe and unsubscribe in the two steps the event loop runs them in: up
\* to the `await`, where the call is suspended, and from it to the return
subscribe_issue(session, params) ==
    /\ Len(awaiting) < MaxAwaiting
    /\ LET r == subscribeIssued(heap[session], arrays, params)
       IN  /\ heap' = [heap EXCEPT ![session] = r.obj]
           /\ arrays' = r.arrs
           /\ awaiting' = Append(awaiting, [op |-> "subscribe", session |-> session,
                                            params |-> params, rets |-> r.rets])
    /\ last' = Call("subscribe", session, params, Pending, <<>>)
    /\ UNCHANGED <<clock, timeout, timer, sessions, issued, swept, listed>>

unsubscribe_issue(session, params) ==
    /\ Len(awaiting) < MaxAwaiting
    /\ LET r == unsubscribeIssued(heap[session], arrays, params)
       IN  /\ heap' = [heap EXCEPT ![session] = r.obj]
           /\ arrays' = r.arrs
           /\ awaiting' = Append(awaiting, [op |-> "unsubscribe", session |-> session,
                                            params |-> params, rets |-> r.rets])
    /\ last' = Call("unsubscribe", session, params, Pending, <<>>)
    /\ UNCHANGED <<clock, timeout, timer, sessions, issued, swept, listed>>

resume(i) ==
    /\ last' = Call(awaiting[i].op, awaiting[i].session, awaiting[i].params,
                    awaited(awaiting[i].params, awaiting[i].rets), <<>>)
    /\ awaiting' = Splice(awaiting, i)
    /\ UNCHANGED <<clock, timeout, timer, heap, arrays, sessions, issued, swept, listed>>

listSessions ==
    /\ last' = Call("listSessions", NoSession, None,
                    Return(serializeAll(sessions, heap)), <<>>)
    /\ UNCHANGED <<clock, timeout, timer, heap, sessions, issued, swept, arrays, listed, awaiting>>

destroySession(params) ==
    LET r == destroyById(sessions, heap, params)
    IN  /\ sessions' = r.sessions
        /\ last' = Call("destroySession", NoSession, params, r.ret, <<>>)
        /\ UNCHANGED <<clock, timeout, timer, heap, issued, swept, arrays, listed, awaiting>>

push(session, subject, message) ==
    LET r == Session_push(heap[session], subject, message)
    IN  /\ heap' = [heap EXCEPT ![session] = r.obj]
        /\ last' = Call("push", session, [subject |-> subject, message |-> message], r.ret, r.sent)
        /\ UNCHANGED <<clock, timeout, timer, sessions, issued, swept, arrays, listed, awaiting>>

pushIfSubscribed(session, subject, message) ==
    LET r == Session_pushIfSubscribed(heap[session], arrays, subject, message)
    IN  /\ heap' = [heap EXCEPT ![session] = r.obj]
        /\ last' = Call("pushIfSubscribed", session, [subject |-> subject, message |-> message],
                    r.ret, r.sent)
        /\ UNCHANGED <<clock, timeout, timer, sessions, issued, swept, arrays, listed, awaiting>>

\* A client keeps the list that listSessions has just returned to it
Client_keepList ==
    /\ last.op = "listSessions"
    /\ listed' = Kept(last.ret.value, arrays)
    /\ UNCHANGED <<clock, timeout, timer, heap, arrays, sessions, issued, swept, last, awaiting>>

\* The dispatcher resolves a token, touches the session, attaches a user
Dispatcher_getSession(token) ==
    /\ last' = Call("getSession", NoSession, token,
                    Return(getSession(sessions, heap, token)), <<>>)
    /\ UNCHANGED <<clock, timeout, timer, heap, sessions, issued, swept, arrays, listed, awaiting>>

\* (variant of Dispatcher_use: a used session that is not in the store is put back)
Dispatcher_use_reviving(session) ==
    /\ heap' = [heap EXCEPT ![session] = use(heap[session], clock)]
    /\ sessions' = IF indexOfObject(sessions, session) = 0 THEN Append(sessions, session)
                   ELSE sessions
    /\ last' = Call("use", session, None, Return(Undefined), <<>>)
    /\ UNCHANGED <<clock, timeout, timer, issued, swept, arrays, listed, awaiting>>

Dispatcher_use(session) ==
    /\ heap' = [heap EXCEPT ![session] = use(heap[session], clock)]
    /\ last' = Call("use", session, None, Return(Undefined), <<>>)
    /\ UNCHANGED <<clock, timeout, timer, sessions, issued, swept, arrays, listed, awaiting>>

Dispatcher_setUser(session, user) ==
    /\ heap' = [heap EXCEPT ![session] = setUser(heap[session], user)]
    /\ last' = Call("setUser", session, user, Return(Undefined), <<>>)
    /\ UNCHANGED <<clock, timeout, timer, sessions, issued, swept, arrays, listed, awaiting>>

\* The transport attaches and detaches a connection
Transport_setConnection(session, connection) ==
    /\ heap' = [heap EXCEPT ![session] = setConnection(heap[session], connection)]
    /\ last' = Call("setConnection", session, connection, Return(Undefined), <<>>)
    /\ UNCHANGED <<clock, timeout, timer, sessions, issued, swept, arrays, listed, awaiting>>

\* Calls that create, find, touch and remove sessions, and the passing of time
NextStore ==
    \/ Tick
    \/ _gc
    \/ createSession
    \/ listSessions
    \/ \E session \in {NoSession} \cup Refs : destroyCurrentSession(session)
    \/ \E params \in UUIDS : destroySession(params)
    \/ \E token \in UUIDS : Dispatcher_getSession(token)
    \/ \E session \in Refs : Dispatcher_use(session)

\* Calls that read or set the user of a session
NextUser ==
    \/ \E session \in {NoSession} \cup Refs :
          \/ state(session)
          \/ listPermissionsForCurrentSession(session)
    \/ \E session \in Refs, user \in Users \cup {Null} : Dispatcher_setUser(session, user)

\* Calls of the push protocol
NextPush ==
    \/ \E session \in {NoSession} \cup Refs, topic \in Topics :
          \/ subscribe(session, StringParam(topic))
          \/ unsubscribe(session, StringParam(topic))
    \/ \E session \in {NoSession} \cup Refs, topics \in Batches :
          \/ subscribe(session, ArrayParam(topics))
          \/ unsubscribe(session, ArrayParam(topics))
    \/ \E session \in Refs, connection \in Connections \cup {Null} :
          Transport_setConnection(session, connection)
    \/ \E session \in Refs, subject \in Topics, message \in Messages :
          \/ push(session, subject, message)
          \/ pushIfSubscribed(session, subject, message)

Next == NextStore \/ NextUser \/ NextPush \/ Client_keepList

Spec == Init /\ [][Next]_vars

\* The store and the clock alone
SpecStore == Init /\ [][NextStore]_vars

\* Every call, at one instant of the clock
NextCalls ==
    \/ _gc
    \/ createSession
    \/ listSessions
    \/ \E session \in {NoSession} \cup Refs : destroyCurrentSession(session)
    \/ \E params \in UUIDS : destroySession(params)
    \/ \E token \in UUIDS : Dispatcher_getSession(token)
    \/ \E session \in Refs : Dispatcher_use(session)
    \/ NextUser
    \/ NextPush

SpecCalls == Init /\ [][NextCalls]_vars

\* Sessions created, used and destroyed while time passes and the timer fires.
\* Time does pass, and Node runs a pending timer: both steps are taken fairly.
NextSweep ==
    \/ Tick
    \/ _gc
    \/ createSession
    \/ \E session \in Refs : Dispatcher_use(session)
    \/ \E session \in Refs : destroyCurrentSession(session)

SpecSweep == Init /\ [][NextSweep]_vars /\ WF_vars(Tick) /\ WF_vars(_gc)

\* Every call on sessions that are in the store or were removed from it
NextFrame ==
    \/ _gc
    \/ createSession
    \/ listSessions
    \/ \E params \in UUIDS : destroySession(params)
    \/ \E token \in UUIDS : Dispatcher_getSession(token)
    \/ \E session \in Refs :
          \/ destroyCurrentSession(session)
          \/ Dispatcher_use(session)
          \/ state(session)
          \/ listPermissionsForCurrentSession(session)
          \/ \E connection \in Connections : Transport_setConnection(session, connection)
          \/ \E topic \in Topics :
                \/ subscribe(session, StringParam(topic))
                \/ unsubscribe(session, StringParam(topic))
                \/ push(session, topic, Str("hello"))
                \/ pushIfSubscribed(session, topic, Str("hello"))

SpecFrame == Init /\ [][NextFrame]_vars

\* Batches that are suspended while other calls and the sweep run
NextAwait ==
    \/ _gc
    \/ createSession
    \/ \E session \in Refs : destroyCurrentSession(session)
    \/ \E session \in Refs, topics \in Batches :
          \/ subscribe_issue(session, ArrayParam(topics))
          \/ unsubscribe_issue(session, ArrayParam(topics))
    \/ \E session \in Refs, topic \in Topics :
          \/ subscribe_issue(session, StringParam(topic))
          \/ unsubscribe_issue(session, StringParam(topic))
    \/ \E i \in DOMAIN awaiting : resume(i)

SpecAwait == Init /\ [][NextAwait]_vars

\* A client that keeps a list, and the calls that follow
NextList ==
    \/ Tick
    \/ _gc
    \/ createSession
    \/ listSessions
    \/ Client_keepList
    \/ \E session \in Refs : destroyCurrentSession(session)
    \/ \E session \in Refs : Dispatcher_use(session)
    \/ \E session \in Refs, topic \in Topics :
          \/ subscribe(session, StringParam(topic))
          \/ unsubscribe(session, StringParam(topic))

SpecList == Init /\ [][NextList]_vars

\* Sessions that are used, pushed to and asked about while time passes
NextTouch ==
    \/ Tick
    \/ _gc
    \/ createSession
    \/ listSessions
    \/ \E session \in Refs :
          \/ Dispatcher_use(session)
          \/ state(session)
          \/ \E user \in Users : Dispatcher_setUser(session, user)
          \/ \E connection \in Connections : Transport_setConnection(session, connection)
          \/ \E topic \in Topics :
                \/ subscribe(session, StringParam(topic))
                \/ unsubscribe(session, StringParam(topic))
                \/ push(session, topic, Str("hello"))
                \/ pushIfSubscribed(session, topic, Str("hello"))

SpecTouch == Init /\ [][NextTouch]_vars

----------------------------------------------------------------------------
(* Properties *)

\* The outcome `r` is the return of `v`; is the throw of `e`
Returns(r, v) == r.type = "return" /\ r.value = v
Throws(r, e) == r.type = "throw" /\ r.value = e

\* The sessions an array of references holds
Live(arr) == {arr[i] : i \in DOMAIN arr}

\* Seconds the session at `r` has been idle
Idle(r) == clock - heap[r]._dateLastUsed

\* C1: a sweep at time `clock` with timeout T keeps exactly the sessions that
\* were live before it and have been idle for less than T seconds: one idle
\* for T - 1 seconds stays, one idle for T or for T + 1 seconds goes.
C1_SweepKeepsExactlyTheFresh ==
    [][ (last'.op = "_gc" /\ ~IsNull(timeout)) =>
          /\ \A r \in Refs :
                r \in Live(sessions') <=> (r \in Live(sessions) /\ Idle(r) < timeout.n)
          /\ \A r \in Live(sessions) :
                /\ Idle(r) = timeout.n - 1 => r \in Live(sessions')
                /\ Idle(r) = timeout.n     => r \notin Live(sessions')
                /\ Idle(r) = timeout.n + 1 => r \notin Live(sessions')
          /\ Len(sessions') = Cardinality(Live(sessions')) ]_vars

\* A sweep has just run; it left a session idle for T - 1 seconds in the store
\* and a session idle for T + 1 seconds is gone
C1_Witness ==
    /\ last.op = "_gc"
    /\ ~IsNull(timeout)
    /\ \E r \in swept : Idle(r) = timeout.n + 1
    /\ \E r \in Live(sessions) : Idle(r) = timeout.n - 1

\* C2: no two live sessions have the same identifier, and no two sessions ever
\* created were given the same identifier; createSession returns the identifier
\* of the session it added to the store.
C2_IdentifiersAreUnique ==
    /\ \A i, j \in DOMAIN sessions :
          i # j => heap[sessions[i]]._id # heap[sessions[j]]._id
    /\ \A r, q \in Refs : r # q => heap[r]._id # heap[q]._id
    /\ last.op = "createSession" =>
          /\ Returns(last.ret, heap[sessions[Len(sessions)]]._id)
          /\ \A i \in 1..(Len(sessions) - 1) :
                heap[sessions[i]]._id # last.ret.value

\* A second session has just been created next to a live one
C2_Witness ==
    /\ last.op = "createSession"
    /\ Len(sessions) >= 2

\* What a client reads under `key` after JSON.parse of a sent text: the value
\* that follows the key, undefined when the object has no such key
JSONparseGet(text, key) ==
    LET at == {i \in DOMAIN text :
                  /\ i % 4 = 2
                  /\ i + 2 <= Len(text)
                  /\ text[i] = Tok("string", key)
                  /\ text[i + 1] = Tok("punct", ":")}
    IN  IF at = {} THEN Undefined
        ELSE LET v == text[(CHOOSE i \in at : TRUE) + 2]
             IN  IF v[1] = "string" THEN Str(v[2]) ELSE <<"boolean", v[2]>>

\* The text is one JSON object: braces around comma-separated members
JSONisObject(text) ==
    /\ Len(text) >= 2
    /\ Len(text) % 4 = 1
    /\ text[1] = Tok("punct", "{")
    /\ text[Len(text)] = Tok("punct", "}")
    /\ \A i \in 2..(Len(text) - 1) : i % 4 = 1 => text[i] = Tok("punct", ",")

\* C5: destroy(self) and a sweep that both go for one session remove it once.
\* destroy(self) of a session in the store returns true and takes out that
\* session alone; of a session a sweep (or anything else) already removed it
\* throws 'Session not found.' and changes nothing.  A sweep after the destroy
\* finds nothing to remove for that session, and keeps every session that has
\* not timed out.  Once out of the store a session never comes back.
C5_DestroyAndSweepRemoveOnce ==
    [][ \A r \in Refs :
          /\ r \notin Live(sessions) => r \notin Live(sessions')
          /\ (last'.op = "destroyCurrentSession" /\ last'.session = r) =>
                /\ r \notin Live(sessions')
                /\ IF r \in Live(sessions)
                   THEN /\ Returns(last'.ret, TRUE)
                        /\ Live(sessions') = Live(sessions) \ {r}
                        /\ Len(sessions') = Len(sessions) - 1
                   ELSE /\ Throws(last'.ret, "Session not found.")
                        /\ sessions' = sessions
          /\ (last'.op = "_gc" /\ ~IsNull(timeout)) =>
                /\ r \notin Live(sessions) => r \notin swept' \ swept
                /\ (r \in Live(sessions) /\ Idle(r) < timeout.n) => r \in Live(sessions')
                /\ r \in swept' \ swept => (r \in Live(sessions) /\ r \notin Live(sessions'))
      ]_vars

\* destroy(self) has just found its session gone because a sweep removed it,
\* while another session is still in the store
C5_Witness ==
    /\ last.op = "destroyCurrentSession"
    /\ last.session \in swept
    /\ Throws(last.ret, "Session not found.")
    /\ sessions # <<>>

\* C7: push returns false and sends nothing without a connection; with one it
\* returns true and the connection is sent one text, which parses to
\* {pushMessage: true, subject: topic, message: m}, whatever the subscriptions.
C7_PushDeliversOnce ==
    last.op = "push" =>
        LET connection == heap[last.session]._connection
            subject    == last.params.subject
            message    == last.params.message
        IN  IF connection = Null
            THEN Returns(last.ret, FALSE) /\ last.sent = <<>>
            ELSE /\ Returns(last.ret, TRUE)
                 /\ Len(last.sent) = 1
                 /\ last.sent[1].to = connection
                 /\ JSONisObject(last.sent[1].text)
                 /\ JSONparseGet(last.sent[1].text, "pushMessage") = True
                 /\ JSONparseGet(last.sent[1].text, "subject") = Str(subject)
                 /\ JSONparseGet(last.sent[1].text, "message") = message

\* A push to a session with a connection has just been made
C7_Witness ==
    /\ last.op = "push"
    /\ heap[last.session]._connection # Null
    /\ last.params.message # Undefined
    /\ Len(last.sent) = 1

\* C10: management/destroy of an identifier no live session has throws
\* 'Session not found' and leaves the store as it is; of a live session's
\* identifier it returns true and removes that session alone.  No session in
\* the store has the identifier of a session that was removed, so getSession
\* of it returns null.
C10_ManagementDestroy ==
    [][ /\ last'.op = "destroySession" =>
              LET hit == {r \in Live(sessions) : heap[r]._id = last'.params}
              IN  IF hit = {}
                  THEN /\ Throws(last'.ret, "Session not found")
                       /\ sessions' = sessions
                  ELSE /\ Returns(last'.ret, TRUE)
                       /\ Live(sessions') = Live(sessions) \ hit
                       /\ Cardinality(hit) = 1
                       /\ Len(sessions') = Len(sessions) - 1
                       /\ \A q \in Live(sessions') : heap'[q]._id # last'.params
        /\ \A r \in Refs : r \notin Live(sessions) =>
              \A q \in Live(sessions') : heap'[q]._id # heap[r]._id
        /\ last'.op = "getSession" =>
              IF \E q \in Live(sessions) : heap[q]._id = last'.params
              THEN /\ last'.ret.value \in Live(sessions)
                   /\ heap[last'.ret.value]._id = last'.params
              ELSE Returns(last'.ret, NoSession)
      ]_vars

\* management/destroy has just removed a session and left another in the store
C10_Witness ==
    /\ last.op = "destroySession"
    /\ Returns(last.ret, TRUE)
    /\ sessions # <<>>
    /\ \E r \in Refs : heap[r]._id = last.params /\ r \notin Live(sessions)

\* The array the `_subscriptions` of the session at `r` points to
SubscriptionsOf(objs, arrs, r) == arrs[objs[r]._subscriptions.at]
Subscriptions(r) == SubscriptionsOf(heap, arrays, r)

\* The items of a subscription array in which `topic` occurs
Occurrences(items, topic) == {i \in DOMAIN items : items[i] = topic}

\* C3: a session's subscription set is the empty set from construction on, so
\* subscribe, unsubscribe and pushIfSubscribed on a session complete with
\* their result and do not fail.
C3_SubscriptionsStartEmpty ==
    /\ last.op = "createSession" => (/\ ~IsNull(heap[Len(heap)]._subscriptions)
                                     /\ Subscriptions(Len(heap)) = <<>>)
    /\ \A r \in Refs : ~IsNull(heap[r]._subscriptions)
    /\ (last.op \in {"subscribe", "unsubscribe", "pushIfSubscribed"}
            /\ last.session # NoSession) => last.ret.type = "return"

\* C4: subscribe(topic) returns true exactly when the topic was not subscribed
\* before, and leaves it in the set once; unsubscribe(topic) returns true
\* whatever the set held, and leaves the topic out of it.
C4_SubscribeUnsubscribeResults ==
    [][ /\ (last'.op = "subscribe" /\ last'.session # NoSession
                /\ last'.params.type = "string") =>
              /\ last'.ret.type = "return"
              /\ last'.ret.value =
                    ~Includes(Subscriptions(last'.session), last'.params.value)
              /\ Cardinality(Occurrences(SubscriptionsOf(heap', arrays', last'.session),
                                         last'.params.value)) = 1
        /\ (last'.op = "unsubscribe" /\ last'.session # NoSession
                /\ last'.params.type = "string") =>
              /\ Returns(last'.ret, TRUE)
              /\ ~Includes(SubscriptionsOf(heap', arrays', last'.session), last'.params.value)
      ]_vars

\* C6: permissions with a session returns the list of permissions of the
\* session's user; it fails only without a session, with 'no active session'.
C6_PermissionsResult ==
    last.op = "listPermissionsForCurrentSession" =>
        IF last.session = NoSession
        THEN Throws(last.ret, "no active session")
        ELSE LET user == heap[last.session]._user
             IN  Returns(last.ret, IF user # Null THEN User_getPermissions(user) ELSE <<>>)

\* C8: pushIfSubscribed returns false and sends nothing when the topic is not
\* subscribed, even with a connection; when it is subscribed it returns and
\* sends what push does.
C8_PushIfSubscribedResult ==
    last.op = "pushIfSubscribed" =>
        /\ last.ret.type = "return"
        /\ IF ~Includes(Subscriptions(last.session), last.params.subject)
           THEN Returns(last.ret, FALSE) /\ last.sent = <<>>
           ELSE LET p == Session_push(heap[last.session], last.params.subject, last.params.message)
                IN  last.ret = p.ret /\ last.sent = p.sent

\* C9: a batch subscribe returns one boolean per topic, in input order: true
\* exactly for a topic that was not subscribed before the call and does not
\* occur earlier in the batch.
C9_BatchSubscribeResults ==
    [][ (last'.op = "subscribe" /\ last'.session # NoSession
             /\ last'.params.type = "array") =>
          LET topics == last'.params.value
          IN  /\ last'.ret.type = "return"
              /\ Len(last'.ret.value) = Len(topics)
              /\ \A i \in DOMAIN topics :
                    last'.ret.value[i] =
                       (/\ ~Includes(Subscriptions(last'.session), topics[i])
                        /\ \A j \in 1..(i - 1) : topics[j] # topics[i])
      ]_vars

\* C11: destroy(self) with a session that is in the store returns true and
\* takes exactly that entry out of the array, the others staying in place;
\* with a session that is not in the store (destroyed before, swept, or null)
\* it throws 'Session not found.' and the array stays as it was.  No session
\* object is changed either way.
C11_DestroyCurrentSession ==
    [][ last'.op = "destroyCurrentSession" =>
          /\ heap' = heap
          /\ IF last'.session \in Live(sessions)
             THEN /\ Returns(last'.ret, TRUE)
                  /\ sessions' = SelectSeq(sessions, LAMBDA r : r # last'.session)
                  /\ Len(sessions') = Len(sessions) - 1
             ELSE /\ Throws(last'.ret, "Session not found.")
                  /\ sessions' = sessions
      ]_vars

\* destroy(self) has just removed its session from a store that held two, and
\* the other one is still there
C11_Witness ==
    /\ last.op = "destroyCurrentSession"
    /\ Returns(last.ret, TRUE)
    /\ last.session \in Refs
    /\ last.session \notin Live(sessions)
    /\ Len(sessions) = 1

C13_NullSessionIsRefused ==
    [][ (/\ last'.op \in {"state", "listPermissionsForCurrentSession",
                          "subscribe", "unsubscribe"}
         /\ last'.session = NoSession) =>
          /\ Throws(last'.ret, "no active session")
          /\ sessions' = sessions
          /\ heap' = heap
          /\ arrays' = arrays
      ]_vars

\* state has just been called without a session while the store holds one
C13_Witness ==
    /\ last.op = "state"
    /\ last.session = NoSession
    /\ Throws(last.ret, "no active session")
    /\ sessions # <<>>

\* C14: with no timeout configured no _gc is ever pending and none runs; a
\* session leaves the store only in a destroyCurrentSession or destroySession
\* call, however long it has been idle.
C14_NoTimeoutNoSweep ==
    [][ IsNull(timeout) =>
          /\ ~timer /\ ~timer'
          /\ last'.op # "_gc"
          /\ swept' = {}
          /\ \A r \in Live(sessions) :
                r \notin Live(sessions') =>
                   last'.op \in {"destroyCurrentSession", "destroySession"}
      ]_vars

\* Without a timeout a session is still in the store after being idle for
\* longer than any configured timeout would allow
C14_Witness ==
    /\ IsNull(timeout)
    /\ \E r \in Live(sessions) : Idle(r) > MaxTimeout

\* C16: the session createSession has just made has lastUsedAt = createdAt =
\* the time of the call, and getSession of the identifier returned finds it;
\* every session has lastUsedAt >= createdAt in every state; and (the clock
\* never going back) no step, use() included, lowers a session's lastUsedAt.
C16_LastUsedNeverBeforeCreated ==
    [][ /\ last'.op = "createSession" =>
              LET new == Len(heap')
              IN  /\ new = Len(heap) + 1
                  /\ heap'[new]._dateCreated = clock
                  /\ heap'[new]._dateLastUsed = heap'[new]._dateCreated
                  /\ getSession(sessions', heap', last'.ret.value) = new
        /\ \A r \in 1..Len(heap') : heap'[r]._dateLastUsed >= heap'[r]._dateCreated
        /\ \A r \in Refs : /\ heap'[r]._dateLastUsed >= heap[r]._dateLastUsed
                            /\ heap'[r]._dateCreated = heap[r]._dateCreated
        /\ last'.op = "use" => heap'[last'.session]._dateLastUsed = clock
      ]_vars

\* A session created after the clock started has just been touched at a later
\* time than it was created
C16_Witness ==
    /\ last.op = "use"
    /\ heap[last.session]._dateCreated > 0
    /\ heap[last.session]._dateLastUsed > heap[last.session]._dateCreated

\* C17: a session's lastUsedAt changes in a use() of that session and in no
\* other step: not in subscribe, unsubscribe, push, pushIfSubscribed, setUser,
\* setConnection, state, listSessions or a sweep.  So a push does not make a
\* session any less idle, and a sweep removes a timed-out session whatever
\* was pushed to it.
C17_OnlyUseTouches ==
    [][ /\ \A r \in Refs :
              heap'[r]._dateLastUsed # heap[r]._dateLastUsed =>
                 (last'.op = "use" /\ last'.session = r)
        /\ last'.op \in {"subscribe", "unsubscribe", "push", "pushIfSubscribed", "setUser",
                         "setConnection", "state", "listSessions", "_gc"} =>
              \A r \in Refs : heap'[r]._dateLastUsed = heap[r]._dateLastUsed
        /\ (last'.op = "_gc" /\ ~IsNull(timeout)) =>
              \A r \in Live(sessions) :
                 clock - heap[r]._dateCreated >= timeout.n
                    /\ heap[r]._dateLastUsed = heap[r]._dateCreated
                 => r \notin Live(sessions')
      ]_vars

\* A message has just been delivered to a session that has timed out, and the
\* session is as idle as before
C17_Witness ==
    /\ last.op = "push"
    /\ Returns(last.ret, TRUE)
    /\ ~IsNull(timeout)
    /\ last.session \in Live(sessions)
    /\ Idle(last.session) >= timeout.n
    /\ heap[last.session]._dateLastUsed = heap[last.session]._dateCreated

\* C18: the array of sessions changes only in createSession,
\* destroyCurrentSession, destroySession and a sweep.  getSession,
\* listSessions, state, permissions, subscribe, unsubscribe, push,
\* pushIfSubscribed and use leave it as it is, also when the session they
\* are given is no longer in it: a removed session is never put back.
C18_MembershipFrame ==
    [][ /\ sessions' # sessions =>
              last'.op \in {"createSession", "destroyCurrentSession", "destroySession", "_gc"}
        /\ last'.op \in {"getSession", "listSessions", "state",
                         "listPermissionsForCurrentSession", "subscribe", "unsubscribe",
                         "push", "pushIfSubscribed", "use"} => sessions' = sessions
        /\ \A r \in Refs : r \notin Live(sessions) => r \notin Live(sessions')
        /\ Live(sessions') \ Live(sessions) # {} =>
              (last'.op = "createSession" /\ Live(sessions') \ Live(sessions) = {Len(heap')})
      ]_vars

\* use() has just been called on a session that was removed from the store,
\* while another session is in it
C18_Witness ==
    /\ last.op = "use"
    /\ last.session \notin Live(sessions)
    /\ sessions # <<>>

\* C15: with a timeout configured a sweep is pending at all times, each pass
\* having scheduled the next; so a session in the store that was last used at
\* time t, early enough for its timeout to fall within the time modelled, is
\* eventually removed from the store unless it is used again.
C15_IdleSessionsAreSwept ==
    /\ [](~IsNull(timeout) => timer)
    /\ \A r \in 1..MaxSessions, t \in 0..(MaxTime - MaxTimeout) :
          (~IsNull(timeout) /\ r \in Live(sessions) /\ heap[r]._dateLastUsed = t)
             ~> (r \notin Live(sessions) \/ heap[r]._dateLastUsed # t)

\* A sweep, not the first one, has just removed a session that was never used
\* after its creation
C15_Witness ==
    /\ last.op = "_gc"
    /\ timer
    /\ \E r \in swept :
          /\ heap[r]._dateCreated > 0
          /\ heap[r]._dateLastUsed = heap[r]._dateCreated
          /\ Idle(r) >= timeout.n

\* The sub-calls a subscribe or unsubscribe with these parameters makes
SubCalls(params) == IF params.type = "string" THEN 1 ELSE Len(params.value)

\* C19: when a batch subscribe or unsubscribe is suspended at its await, every
\* one of its sub-calls has run to its end: one settled outcome per topic.
\* From there to its return the call changes no session, no subscription
\* array and not the store, so no call and no sweep, which run only while it
\* is suspended, finds the batch half applied; the result is the outcomes
\* in the order of the topics.
C19_BatchRunsBeforeSuspending ==
    [][ /\ \A i \in DOMAIN awaiting' :
              /\ Len(awaiting'[i].rets) = SubCalls(awaiting'[i].params)
              /\ \A j \in DOMAIN awaiting'[i].rets : awaiting'[i].rets[j].type # "pending"
        /\ Len(awaiting') > Len(awaiting) =>
              /\ last'.ret.type = "pending"
              /\ awaiting'[Len(awaiting')].params = last'.params
              /\ SubSeq(awaiting', 1, Len(awaiting)) = awaiting
        /\ Len(awaiting') < Len(awaiting) =>
              /\ heap' = heap
              /\ arrays' = arrays
              /\ sessions' = sessions
              /\ last'.ret.type # "pending"
              /\ \E i \in DOMAIN awaiting :
                    /\ awaiting[i].op = last'.op
                    /\ awaiting[i].params = last'.params
                    /\ last'.params.type = "array" =>
                          IF \A j \in DOMAIN awaiting[i].rets : awaiting[i].rets[j].type = "return"
                          THEN /\ last'.ret.type = "return"
                               /\ Len(last'.ret.value) = Len(last'.params.value)
                               /\ \A j \in DOMAIN awaiting[i].rets :
                                     last'.ret.value[j] = awaiting[i].rets[j].value
                          ELSE last'.ret.type = "throw"
      ]_vars

\* A batch of three topics has just resumed while another call is still
\* suspended
C19_Witness ==
    /\ last.op = "subscribe"
    /\ last.ret.type # "pending"
    /\ last.params.type = "array"
    /\ Len(last.params.value) = 3
    /\ awaiting # <<>>

====
